---- MODULE Spec2Model ----
(***************************************************************************)
(* A model of app.py: the text cleaner, the PDF extraction wrapper, the    *)
(* two Flask handlers over the in-memory uploaded_files dictionary, and    *)
(* the command-line entry point.                                           *)
(*                                                                         *)
(* A Python str is a sequence of one-character strings.  The characters    *)
(* outside ASCII are named: "BULLET" is U+2022, "NBSP" is U+00A0, and      *)
(* "A_CIRC", "EURO", "CENT" are U+00E2, U+20AC, U+00A2 (the three          *)
(* characters of the literal on line 46).                                  *)
(***************************************************************************)
EXTENDS Integers, Sequences, FiniteSets, TLC

VARIABLES
    raw,             \* clean_text: the argument of the call under study
    cleaned,         \* clean_text: <<>> or <<clean_text(raw)>>
    recleaned,       \* clean_text: <<>> or <<clean_text(clean_text(raw))>>
    scenario,        \* which documents the clients hold: "small" or "long"
    pc,              \* the process: "start", "serving", "returned", "exited"
    uploaded_files,  \* the dictionary of line 33: file_id -> {filename, text}
    uuid_calls,      \* how many times uuid4() has been called
    request,         \* the HTTP request handled last
    response,        \* the HTTP response to it (NoResponse: none was sent)
    posted,          \* the payloads the last handler or CLI run posted
    argv,            \* sys.argv
    disk,            \* what open(sys.argv[2], "rb") finds
    api_key_set,     \* whether VITE_OPENROUTER_API_KEY is in the environment
    remote,          \* the completion service's reply to the CLI run
    exit_code,       \* the status of sys.exit (-1: the process has not exited)
    stdout           \* what the CLI run printed

clean_vars == <<raw, cleaned, recleaned>>
http_vars  == <<uploaded_files, uuid_calls, request, response>>
cli_vars   == <<argv, disk, api_key_set, remote, exit_code, stdout>>

vars == <<clean_vars, scenario, pc, http_vars, posted, cli_vars>>

---------------------------------------------------------------------------
(* Characters and character classes                                        *)

LowerLetters ==
    <<"a","b","c","d","e","f","g","h","i","j","k","l","m",
      "n","o","p","q","r","s","t","u","v","w","x","y","z">>

UpperLetters ==
    <<"A","B","C","D","E","F","G","H","I","J","K","L","M",
      "N","O","P","Q","R","S","T","U","V","W","X","Y","Z">>

Range(s) == {s[i] : i \in 1..Len(s)}

\* [a-z] of the regular expression on line 45
IsLower(c) == c \in Range(LowerLetters)

\* \s of a str pattern, and the characters str.strip() removes
SpaceChars == {" ", "\n", "\t", "\r", "NBSP"}

IsSpace(c) == c \in SpaceChars

\* str.lower() of one character
LowerChar(c) ==
    IF c \in Range(UpperLetters)
    THEN LowerLetters[CHOOSE i \in 1..26 : UpperLetters[i] = c]
    ELSE c

Min(a, b) == IF a < b THEN a ELSE b

\* ''.join(pieces[lo..hi]), by halving so that long texts stay shallow
RECURSIVE Join(_, _, _)
Join(pieces, lo, hi) ==
    IF lo > hi THEN <<>>
    ELSE IF lo = hi THEN pieces[lo]
    ELSE LET mid == (lo + hi) \div 2
         IN  Join(pieces, lo, mid) \o Join(pieces, mid + 1, hi)

\* the indexes of s that hold the character c, in order
Positions(s, c) == SelectSeq([i \in 1..Len(s) |-> i], LAMBDA i : s[i] = c)

---------------------------------------------------------------------------
(* clean_text, one definition per line of the function                     *)

\* re.sub(r'<[^>]+>', ' ', text): the leftmost non-overlapping matches.  A
\* match runs from a '<' to the first '>' after it, at least two places on;
\* between two consecutive '>' it starts at the first '<' that far from the
\* closing one.
SubTags(text) ==
    LET n   == Len(text)
        gts == Positions(text, ">")
        lts == Positions(text, "<")
        \* the first '>' at or after k (0: none)
        NextGt(k) == IF \E j \in 1..Len(gts) : gts[j] >= k
                     THEN gts[CHOOSE j \in 1..Len(gts) :
                                /\ gts[j] >= k
                                /\ \A h \in 1..Len(gts) : gts[h] >= k => h >= j]
                     ELSE 0
        \* the last '>' before k (0: none)
        PrevGt(k) == IF \E j \in 1..Len(gts) : gts[j] < k
                     THEN gts[CHOOSE j \in 1..Len(gts) :
                                /\ gts[j] < k
                                /\ \A h \in 1..Len(gts) : gts[h] < k => h <= j]
                     ELSE 0
        InMatch(k) == LET g == NextGt(k)
                          p == PrevGt(k)
                      IN  /\ g > 0
                          /\ \E j \in 1..Len(lts) :
                                 /\ lts[j] > p
                                 /\ lts[j] <= Min(k, g - 2)
        piece(k) == IF InMatch(k)
                    THEN IF text[k] = ">" THEN <<" ">> ELSE <<>>
                    ELSE <<text[k]>>
    IN  Join([k \in 1..n |-> piece(k)], 1, n)

\* the place in a run of line feeds ending at i (1: the run starts at i)
RECURSIVE RunOffset(_, _)
RunOffset(text, i) ==
    IF i > 1 /\ text[i - 1] = "\n" THEN 1 + RunOffset(text, i - 1) ELSE 1

\* text.replace('\n\n', '\n'): the pairs are taken from the left, so of a
\* run of line feeds the 1st, 3rd, 5th ... stay.
ReplaceDoubleNewline(text) ==
    LET n == Len(text)
        piece(i) == IF text[i] = "\n" /\ RunOffset(text, i) % 2 = 0
                    THEN <<>> ELSE <<text[i]>>
    IN  Join([i \in 1..n |-> piece(i)], 1, n)

\* as CollapseSpace, were the pattern r' +'
CollapseSpace_blanks_only(text) ==
    LET n == Len(text)
        piece(i) == IF text[i] # " " THEN <<text[i]>>
                    ELSE IF i > 1 /\ text[i - 1] = " " THEN <<>>
                    ELSE <<" ">>
    IN  Join([i \in 1..n |-> piece(i)], 1, n)

\* re.sub(r'\s+', ' ', text)
CollapseSpace(text) ==
    LET n == Len(text)
        piece(i) == IF ~IsSpace(text[i]) THEN <<text[i]>>
                    ELSE IF i > 1 /\ IsSpace(text[i - 1]) THEN <<>>
                    ELSE <<" ">>
    IN  Join([i \in 1..n |-> piece(i)], 1, n)

\* re.sub(r'- (?=[a-z])', '', text): a match is the two characters '- '
\* with a lowercase letter after them; two matches cannot overlap.
Dehyphenate(text) ==
    LET n == Len(text)
        StartsMatch(i) == /\ i >= 1
                          /\ i + 2 <= n
                          /\ text[i] = "-"
                          /\ text[i + 1] = " "
                          /\ IsLower(text[i + 2])
        piece(i) == IF StartsMatch(i) \/ StartsMatch(i - 1)
                    THEN <<>> ELSE <<text[i]>>
    IN  Join([i \in 1..n |-> piece(i)], 1, n)

\* the literal of line 46
BulletText == <<"A_CIRC", "EURO", "CENT", " ">>

\* text.replace('\u2022', <literal>)
ReplaceBullet(text) ==
    LET n == Len(text)
    IN  Join([i \in 1..n |-> IF text[i] = "BULLET" THEN BulletText
                             ELSE <<text[i]>>], 1, n)

\* text.replace('\u00a0', ' ')
ReplaceNbsp(text) ==
    [i \in 1..Len(text) |-> IF text[i] = "NBSP" THEN " " ELSE text[i]]

\* how many characters of the set chars text has in a row from place i on
RECURSIVE LeadingIn(_, _, _)
LeadingIn(text, i, chars) ==
    IF i <= Len(text) /\ text[i] \in chars
    THEN 1 + LeadingIn(text, i + 1, chars) ELSE 0

\* how many characters of the set chars text has in a row up to place i
RECURSIVE TrailingIn(_, _, _)
TrailingIn(text, i, chars) ==
    IF i >= 1 /\ text[i] \in chars
    THEN 1 + TrailingIn(text, i - 1, chars) ELSE 0

\* str.strip(chars)
StripChars(text, chars) ==
    LET a == LeadingIn(text, 1, chars)
    IN  IF a = Len(text) THEN <<>>
        ELSE SubSeq(text, a + 1,
                    Len(text) - TrailingIn(text, Len(text), chars))

\* text.strip()
Strip(text) == StripChars(text, SpaceChars)

\* as clean_text, were line 42 missing
clean_text_keeping_tags(text) ==
    Strip(ReplaceNbsp(ReplaceBullet(Dehyphenate(CollapseSpace(
        ReplaceDoubleNewline(text))))))

clean_text(text) ==
    Strip(ReplaceNbsp(ReplaceBullet(Dehyphenate(CollapseSpace(
        ReplaceDoubleNewline(SubTags(text)))))))

---------------------------------------------------------------------------
(* The string literals of the program                                      *)

\* line 122 and line 178, up to the document text
Preamble ==
    <<"I","'","m"," ","a","n","a","l","y","z","i","n","g"," ","a"," ","d",
      "o","c","u","m","e","n","t"," ","w","i","t","h"," ","t","h","e"," ",
      "f","o","l","l","o","w","i","n","g"," ","c","o","n","t","e","n","t",
      ":","\n","\n">>

\* line 122 and line 178, between the document text and the question
Connective ==
    <<".",".",".","\n","\n","B","a","s","e","d"," ","o","n"," ","t","h",
      "i","s"," ","d","o","c","u","m","e","n","t",","," ","p","l","e","a",
      "s","e"," ","a","n","s","w","e","r",":"," ">>

\* line 61
ExtractErrorPrefix ==
    <<"E","r","r","o","r"," ","e","x","t","r","a","c","t","i","n","g"," ",
      "t","e","x","t",":"," ">>

\* line 140 and line 194
AiErrorPrefix ==
    <<"E","r","r","o","r"," ","g","e","t","t","i","n","g"," ","A","I"," ",
      "r","e","s","p","o","n","s","e",":"," ">>

\* line 94
Ellipsis == <<".",".",".">>

\* line 156
CliFlag == <<"-","-","c","l","i">>

\* line 166
ErrorWord == <<"E","r","r","o","r">>

\* line 20
ALLOWED_EXTENSIONS == {<<"p","d","f">>}

\* str(e) of the exceptions the model raises
StrOf(exc) ==
    CASE exc = "PdfReadError"      -> <<"E","O","F"," ","m","a","r","k","e","r"," ","n","o","t"," ","f","o","u","n","d">>
      [] exc = "PageError"         -> <<"b","a","d"," ","p","a","g","e">>
      [] exc = "FileNotFoundError" -> <<"N","o"," ","s","u","c","h"," ","f","i","l","e">>
      [] exc = "ConnectionError"   -> <<"C","o","n","n","e","c","t","i","o","n"," ","r","e","f","u","s","e","d">>
      [] exc = "HTTPError"         -> <<"4","2","9"," ","C","l","i","e","n","t"," ","E","r","r","o","r">>
      [] exc = "JSONDecodeError"   -> <<"E","x","p","e","c","t","i","n","g"," ","v","a","l","u","e">>
      [] exc = "KeyError"          -> <<"'","c","h","o","i","c","e","s","'">>
      [] exc = "IndexError"        -> <<"l","i","s","t"," ","i","n","d","e","x"," ","o","u","t"," ","o","f"," ","r","a","n","g","e">>
      [] OTHER                     -> <<"u","n","h","a","s","h","a","b","l","e"," ","t","y","p","e">>

---------------------------------------------------------------------------
(* Strings, exceptions, JSON values                                        *)

StartsWith(s, prefix) ==
    Len(s) >= Len(prefix) /\ SubSeq(s, 1, Len(prefix)) = prefix

\* s[:n]
Prefix(s, n) == SubSeq(s, 1, Min(n, Len(s)))

\* str.lower()
Lower(s) == [i \in 1..Len(s) |-> LowerChar(s[i])]

\* the outcome of a call: a value, or an exception of the class exc
Returned(v) == [raised |-> FALSE, exc |-> "", value |-> v]
Raised(exc) == [raised |-> TRUE, exc |-> exc, value |-> <<>>]

JsonString(s) == [type |-> "string", value |-> s]
JsonArray     == [type |-> "array", value |-> <<>>]
JsonNull      == [type |-> "null", value |-> <<>>]

\* hash(value): a list is not hashable, a str is
Hashable(v) == v.type # "array"

\* str(value) inside an f-string
StrOfJson(v) == IF v.type = "string" THEN v.value
                ELSE IF v.type = "array" THEN <<"[", "]">>
                ELSE <<"N", "o", "n", "e">>

---------------------------------------------------------------------------
(* PyPDF2 and the file system.  A document is [opens, pages]: PdfReader    *)
(* raises unless opens; pages[i] is [ok, text], and extract_text() raises  *)
(* unless ok.  A path is [exists, doc].                                    *)

\* PdfReader(file) and the loop over its pages: lines 78-81, and 55-58
ReadPages(doc) ==
    IF ~doc.opens THEN Raised("PdfReadError")
    ELSE IF \E i \in 1..Len(doc.pages) : ~doc.pages[i].ok
         THEN Raised("PageError")
    ELSE Returned(Join([i \in 1..Len(doc.pages) |->
                           doc.pages[i].text \o <<"\n">>],
                       1, Len(doc.pages)))

extract_text_from_pdf(file) ==
    LET read == IF ~file.exists THEN Raised("FileNotFoundError")
                ELSE ReadPages(file.doc)
    IN  IF read.raised THEN ExtractErrorPrefix \o StrOf(read.exc)
        ELSE clean_text(read.value)

---------------------------------------------------------------------------
(* The remote completion service.  A reply is [transport, status, is_json, *)
(* result]: transport "error" makes requests.post raise and "hang" makes   *)
(* it never return; result is the parsed body, with has_* telling which    *)
(* keys it holds.                                                          *)

\* the try block: lines 135-138, and 189-192
post_completion(reply) ==
    IF reply.transport = "error" THEN Raised("ConnectionError")
    ELSE IF reply.status >= 400 THEN Raised("HTTPError")
    ELSE IF ~reply.is_json THEN Raised("JSONDecodeError")
    ELSE IF ~reply.result.has_choices THEN Raised("KeyError")
    ELSE IF Len(reply.result.choices) = 0 THEN Raised("IndexError")
    ELSE IF ~reply.result.choices[1].has_message THEN Raised("KeyError")
    ELSE IF ~reply.result.choices[1].has_content THEN Raised("KeyError")
    ELSE Returned(reply.result.choices[1].content)

\* as try_completion, were the handler to catch requests' exceptions only
try_completion_requests_only(reply) ==
    LET r == post_completion(reply)
    IN  IF r.raised /\ r.exc \in {"ConnectionError", "HTTPError"}
        THEN Returned(AiErrorPrefix \o StrOf(r.exc))
        ELSE r

\* try / except Exception: lines 134-140
try_completion(reply) ==
    LET r == post_completion(reply)
    IN  IF r.raised THEN Returned(AiErrorPrefix \o StrOf(r.exc)) ELSE r

\* try / except Exception: lines 188-194
cli_try_completion(reply) ==
    LET r == post_completion(reply)
    IN  IF r.raised THEN Returned(AiErrorPrefix \o StrOf(r.exc)) ELSE r

---------------------------------------------------------------------------
(* The Flask handlers                                                      *)

PREVIEW_CHARS == 500

CONTEXT_CHARS == 4000

CLI_CONTEXT_CHARS == 4000

NoRequest  == [op |-> "none"]
NoResponse == [status |-> 0, body |-> [kind |-> "none"]]

\* jsonify(...), 200
Ok(body) == [status |-> 200, body |-> body]

\* jsonify({'error': message}), 400
BadRequest(message) ==
    [status |-> 400, body |-> [kind |-> "error", error |-> message]]

\* what Flask answers when the handler raises
InternalServerError(exc) ==
    [status |-> 500, body |-> [kind |-> "exception", exc |-> exc]]

\* uploaded_files = {}
EmptyDict == [k \in {} |-> k]

\* d[key] = value
DictSet(d, key, value) ==
    [k \in DOMAIN d \cup {key} |-> IF k = key THEN value ELSE d[k]]

\* the place of the last '.' of filename
LastDot(filename) ==
    CHOOSE i \in 1..Len(filename) :
        /\ filename[i] = "."
        /\ \A j \in (i + 1)..Len(filename) : filename[j] # "."

\* the place of the first '.' of filename
FirstDot(filename) ==
    CHOOSE i \in 1..Len(filename) :
        /\ filename[i] = "."
        /\ \A j \in 1..(i - 1) : filename[j] # "."

\* as allowed_file, were it to read filename.split('.')[1]
allowed_file_first_extension(filename) ==
    /\ "." \in Range(filename)
    /\ LET rest == SubSeq(filename, FirstDot(filename) + 1, Len(filename))
           ext  == IF "." \in Range(rest)
                   THEN SubSeq(rest, 1, FirstDot(rest) - 1) ELSE rest
       IN  Lower(ext) \in ALLOWED_EXTENSIONS

allowed_file(filename) ==
    /\ "." \in Range(filename)
    /\ Lower(SubSeq(filename, LastDot(filename) + 1, Len(filename)))
           \in ALLOWED_EXTENSIONS

\* werkzeug's secure_filename, for names made of letters and dots: the dots
\* (and underscores) at both ends go
secure_filename(filename) == StripChars(filename, {".", "_"})

DigitChars == <<"1", "2", "3", "4", "5", "6", "7", "8", "9">>

\* as str_uuid4, were the identifier not random
str_uuid4_fixed(calls) == <<"u", "u", "i", "d", "-", DigitChars[1]>>

\* str(uuid4()) at the call after `calls` calls: a value no earlier call
\* returned
str_uuid4(calls) == <<"u", "u", "i", "d", "-", DigitChars[calls + 1]>>

\* as text_preview, were the comparison len(extracted_text) >= 500
text_preview_inclusive(extracted_text) ==
    IF Len(extracted_text) >= PREVIEW_CHARS
    THEN Prefix(extracted_text, PREVIEW_CHARS) \o Ellipsis
    ELSE extracted_text

\* line 94
text_preview(extracted_text) ==
    IF Len(extracted_text) > PREVIEW_CHARS
    THEN Prefix(extracted_text, PREVIEW_CHARS) \o Ellipsis
    ELSE extracted_text

\* upload_pdf on request.files = files, a record [has_file, filename, doc];
\* gives the dictionary and the uuid4 count it leaves, and its response
upload_pdf(files, store, calls) ==
    LET Keep(resp) == [uploaded_files |-> store, uuid_calls |-> calls,
                       response |-> resp]
    IN  IF ~files.has_file
        THEN Keep(BadRequest("No file part in the request"))
        ELSE IF files.filename = <<>>
        THEN Keep(BadRequest("No file selected"))
        ELSE IF allowed_file(files.filename)
        THEN LET filename == secure_filename(files.filename)
                 read     == ReadPages(files.doc)
             IN  IF read.raised
                 THEN Keep(InternalServerError(read.exc))
                 ELSE LET extracted_text == clean_text(read.value)
                          file_id        == str_uuid4(calls)
                      IN  [uploaded_files |->
                               DictSet(store, file_id,
                                       [filename |-> filename,
                                        text |-> extracted_text]),
                           uuid_calls |-> calls + 1,
                           response |->
                               Ok([kind |-> "upload",
                                   file_id |-> file_id,
                                   filename |-> filename,
                                   text_length |-> Len(extracted_text),
                                   text_preview |->
                                       text_preview(extracted_text)])]
        ELSE Keep(BadRequest("File type not allowed"))

\* as prompt_text, were the document text not cut
prompt_text_uncut(extracted_text, prompt) ==
    Preamble \o extracted_text \o Connective \o StrOfJson(prompt)

\* line 122
prompt_text(extracted_text, prompt) ==
    Preamble \o Prefix(extracted_text, CONTEXT_CHARS) \o Connective
        \o StrOfJson(prompt)

\* line 178
cli_prompt_text(extracted_text, query) ==
    Preamble \o Prefix(extracted_text, CLI_CONTEXT_CHARS) \o Connective
        \o query

\* lines 124-132, and 179-186: system names the system message's literal
Payload(system, user_content) ==
    [model    |-> "deepseek/deepseek-v3-base:free",
     messages |-> <<[role |-> "system", content |-> <<system>>],
                    [role |-> "user", content |-> user_content]>>]

\* query_pdf on request.json = data, a record [keys, file_id, prompt] that
\* holds the keys in data.keys, when the completion service answers reply;
\* gives its response and the payloads it posted
query_pdf(data, reply, store) ==
    IF \/ data.keys = {}
       \/ "file_id" \notin data.keys
       \/ "prompt" \notin data.keys
    THEN [response |-> BadRequest("file_id and prompt are required"),
          posted |-> <<>>]
    ELSE LET file_id == data.file_id
             prompt  == data.prompt
         IN  IF ~Hashable(file_id)
             THEN [response |-> InternalServerError("TypeError"),
                   posted |-> <<>>]
             ELSE
             LET \* <<>> stands for None too: both are falsy on line 111
                 extracted_text ==
                     IF file_id.value \in DOMAIN store
                     THEN store[file_id.value].text ELSE <<>>
             IN  IF extracted_text = <<>>
                 THEN [response |->
                           BadRequest("Invalid file_id or no PDF content found"),
                       posted |-> <<>>]
                 ELSE
                 LET payload == Payload("medical assistant",
                                        prompt_text(extracted_text, prompt))
                     ai      == try_completion(reply)
                 IN  IF reply.transport = "hang"
                     THEN [response |-> NoResponse, posted |-> <<payload>>]
                     ELSE IF ai.raised
                     THEN [response |-> InternalServerError(ai.exc),
                           posted |-> <<payload>>]
                     ELSE [response |-> Ok([kind |-> "query",
                                            file_id |-> file_id,
                                            prompt |-> prompt,
                                            response |-> ai.value]),
                           posted |-> <<payload>>]

\* test_endpoint
test_endpoint == Ok([kind |-> "status", status |-> "API is working!"])

---------------------------------------------------------------------------
(* The command line                                                        *)

\* print(lit + arg), lit being a literal of the program
Out(lit, arg) == [lit |-> lit, arg |-> arg]

\* ' '.join(words)
JoinWords(words) ==
    Join([i \in 1..Len(words) |->
             IF i = 1 THEN words[i] ELSE <<" ">> \o words[i]],
         1, Len(words))

\* run_cli_mode() with sys.argv = args (args[k + 1] is sys.argv[k]), the
\* path's file, and the completion service answering reply; gives where the
\* process is then, its exit status, its output and the payloads it posted
run_cli_mode(args, file, reply) ==
    IF Len(args) > 1 /\ args[2] = CliFlag
    THEN IF Len(args) < 4
         THEN [pc |-> "exited", exit_code |-> 1,
               stdout |-> <<Out("Usage: python app.py --cli <pdf_path> <query>",
                                <<>>)>>,
               posted |-> <<>>]
         ELSE
         LET pdf_path       == args[3]
             query          == JoinWords(SubSeq(args, 4, Len(args)))
             processing     == Out("Processing PDF: ", pdf_path)
             extracted_text == extract_text_from_pdf(file)
         IN  IF StartsWith(extracted_text, ErrorWord)
             THEN [pc |-> "exited", exit_code |-> 1,
                   stdout |-> <<processing, Out("", extracted_text)>>,
                   posted |-> <<>>]
             ELSE
             LET getting == Out("\nGetting AI response...", <<>>)
                 payload == Payload("report explainer",
                                    cli_prompt_text(extracted_text, query))
                 ai      == cli_try_completion(reply)
             IN  IF reply.transport = "hang"
                 THEN [pc |-> "blocked", exit_code |-> -1,
                       stdout |-> <<processing, getting>>,
                       posted |-> <<payload>>]
                 ELSE [pc |-> "exited", exit_code |-> 0,
                       stdout |-> <<processing, getting,
                                    Out("\nAI Response:", <<>>),
                                    Out("", ai.value)>>,
                       posted |-> <<payload>>]
    ELSE [pc |-> "returned", exit_code |-> -1, stdout |-> <<>>,
          posted |-> <<>>]

---------------------------------------------------------------------------
(* What the clients, the disk and the completion service hold              *)

MaxLen == 5

MaxUploads == 2

Page(text) == [ok |-> TRUE, text |-> text]
BadPage    == [ok |-> FALSE, text |-> <<>>]

\* the pages "A-\nfoo" and "bar"
DocShort ==
    [opens |-> TRUE,
     pages |-> <<Page(<<"A", "-", "\n", "f", "o", "o">>),
                 Page(<<"b", "a", "r">>)>>]

\* a document without text
DocEmpty == [opens |-> TRUE, pages |-> <<Page(<<>>)>>]

\* a document whose text is "Error log"
DocErrorLog ==
    [opens |-> TRUE,
     pages |-> <<Page(<<"E", "r", "r", "o", "r", " ", "l", "o", "g">>)>>]

\* a file PdfReader cannot read
DocCorrupt == [opens |-> FALSE, pages |-> <<>>]

\* a document whose second page cannot be extracted
DocBadPage == [opens |-> TRUE, pages |-> <<Page(<<"o", "k">>), BadPage>>]

\* a one-page document of n characters: words of six letters
DocLong(n) ==
    [opens |-> TRUE,
     pages |-> <<Page([i \in 1..n |-> IF i % 7 = 0 THEN " "
                                      ELSE LowerLetters[(i % 26) + 1]])>>]

Docs(s) ==
    IF s = "long"
    THEN {DocLong(PREVIEW_CHARS), DocLong(PREVIEW_CHARS + 1),
          DocLong(CONTEXT_CHARS), DocLong(CONTEXT_CHARS + 1)}
    ELSE {DocShort, DocEmpty, DocErrorLog, DocCorrupt, DocBadPage}

NameOfPdf  == <<"a", ".", "p", "d", "f">>
NameUpper  == <<"B", ".", "P", "D", "F">>
NameOfTxt  == <<"r", ".", "t", "x", "t">>
NameTwoExt == <<"a", ".", "p", "d", "f", ".", "t", "x", "t">>
NameNoDot  == <<"p", "d", "f">>

Filenames(s) ==
    IF s = "long" THEN {NameOfPdf, NameOfTxt}
    ELSE {<<>>, NameOfPdf, NameUpper, NameOfTxt, NameTwoExt, NameNoDot}

\* request.files of the upload requests
UploadRequests(s) ==
    {[has_file |-> FALSE, filename |-> <<>>, doc |-> DocCorrupt]}
    \cup [has_file : {TRUE}, filename : Filenames(s), doc : Docs(s)]

Question == <<"w", "h", "y">>

Prompts(s) ==
    IF s = "long" THEN {JsonString(Question)}
    ELSE {JsonString(Question), JsonString(<<>>), JsonArray}

FileIds ==
    {JsonString(str_uuid4(n)) : n \in 0..(MaxUploads - 1)}
    \cup {JsonString(<<"n", "o", "p", "e">>), JsonArray}

\* request.json of the query requests
QueryRequests(s) ==
    [keys : {{}, {"file_id"}, {"prompt"}},
     file_id : {JsonNull}, prompt : {JsonNull}]
    \cup [keys : {{"file_id", "prompt"}},
          file_id : FileIds, prompt : Prompts(s)]

Answer == <<"1", ".", " ", "F", "i", "n", "e">>

Choice(has_message, has_content) ==
    [has_message |-> has_message, has_content |-> has_content,
     content |-> IF has_content THEN Answer ELSE <<>>]

Body(has_choices, choices) ==
    [has_choices |-> has_choices, choices |-> choices]

Reply(transport, status, is_json, result) ==
    [transport |-> transport, status |-> status, is_json |-> is_json,
     result |-> result]

NoReply == Reply("none", 0, FALSE, Body(FALSE, <<>>))

ReplyAnswer  == Reply("ok", 200, TRUE, Body(TRUE, <<Choice(TRUE, TRUE)>>))
ReplyRefused == Reply("error", 0, FALSE, Body(FALSE, <<>>))

Replies(s) ==
    IF s = "long" THEN {ReplyAnswer, ReplyRefused}
    ELSE {ReplyAnswer, ReplyRefused,
          Reply("hang", 0, FALSE, Body(FALSE, <<>>)),
          Reply("ok", 429, TRUE, Body(FALSE, <<>>)),
          Reply("ok", 500, FALSE, Body(FALSE, <<>>)),
          Reply("ok", 200, FALSE, Body(FALSE, <<>>)),
          Reply("ok", 200, TRUE, Body(FALSE, <<>>)),
          Reply("ok", 200, TRUE, Body(TRUE, <<>>)),
          Reply("ok", 200, TRUE, Body(TRUE, <<Choice(FALSE, FALSE)>>)),
          Reply("ok", 200, TRUE, Body(TRUE, <<Choice(TRUE, FALSE)>>))}

NoFile == [exists |-> FALSE, doc |-> DocCorrupt]

Disks(s) == {NoFile} \cup [exists : {TRUE}, doc : Docs(s)]

ProgramName == <<"a", "p", "p", ".", "p", "y">>
PathArg     == <<"r", ".", "p", "d", "f">>

Argvs(s) ==
    IF s = "long" THEN {<<ProgramName, CliFlag, PathArg, Question>>}
    ELSE {<<ProgramName>>,
          <<ProgramName, CliFlag>>,
          <<ProgramName, CliFlag, PathArg>>,
          <<ProgramName, CliFlag, PathArg, Question>>,
          <<ProgramName, CliFlag, PathArg, Question, <<"s", "o">>>>}

Strings(alphabet, n) ==
    UNION {[1..m -> alphabet] : m \in 0..n}

CleanAlphabet == {"<", ">", "a", "-", " ", "\n", "BULLET", "NBSP"}

---------------------------------------------------------------------------
(* Initial states                                                          *)

CleanIdle == raw = <<>> /\ cleaned = <<>> /\ recleaned = <<>>

HttpIdle ==
    /\ uploaded_files = EmptyDict
    /\ uuid_calls = 0
    /\ request = NoRequest
    /\ response = NoResponse

CliIdle ==
    /\ argv = <<ProgramName>>
    /\ disk = NoFile
    /\ api_key_set = TRUE
    /\ remote = NoReply
    /\ exit_code = -1
    /\ stdout = <<>>

\* the module is imported by a server that routes requests to app
InitServing(s) ==
    /\ scenario = s
    /\ pc = "serving"
    /\ posted = <<>>
    /\ CleanIdle /\ HttpIdle /\ CliIdle

\* a process is about to run the module with sys.argv = argv
InitProcess(s) ==
    /\ scenario = s
    /\ pc = "start"
    /\ posted = <<>>
    /\ CleanIdle /\ HttpIdle
    /\ argv \in Argvs(s)
    /\ disk \in Disks(s)
    /\ api_key_set \in BOOLEAN
    /\ remote = NoReply
    /\ exit_code = -1
    /\ stdout = <<>>

Init == InitServing("small")

InitCli == InitProcess("small")

InitLong == InitServing("long") \/ (InitProcess("long") /\ api_key_set)

InitClean ==
    /\ scenario = "small"
    /\ pc = "start"
    /\ posted = <<>>
    /\ HttpIdle /\ CliIdle
    /\ raw \in Strings(CleanAlphabet, MaxLen)
    /\ cleaned = <<>>
    /\ recleaned = <<>>

---------------------------------------------------------------------------
(* Actions                                                                 *)

\* whether upload_pdf on files gets as far as line 84
ReachesUuid4(files) ==
    /\ files.has_file
    /\ files.filename # <<>>
    /\ allowed_file(files.filename)
    /\ ~ReadPages(files.doc).raised

\* POST /api/upload-pdf; the model stops at MaxUploads calls of uuid4()
UploadPdf ==
    /\ pc = "serving"
    /\ \E files \in UploadRequests(scenario) :
           LET res == upload_pdf(files, uploaded_files, uuid_calls)
           IN  /\ ReachesUuid4(files) => uuid_calls < MaxUploads
               /\ request' = [op |-> "upload", files |-> files]
               /\ response' = res.response
               /\ uploaded_files' = res.uploaded_files
               /\ uuid_calls' = res.uuid_calls
               /\ posted' = <<>>
    /\ UNCHANGED <<clean_vars, scenario, pc, cli_vars>>

\* POST /api/query-file.  The handler reads uploaded_files once and writes
\* nothing shared, so its wait for the completion service is not a step of
\* its own.  The reply is kept only when a payload was posted.
QueryPdf ==
    /\ pc = "serving"
    /\ \E data \in QueryRequests(scenario), reply \in Replies(scenario) :
           LET res == query_pdf(data, reply, uploaded_files)
           IN  /\ request' = [op |-> "query", data |-> data,
                              reply |-> IF res.posted = <<>> THEN NoReply
                                        ELSE reply]
               /\ response' = res.response
               /\ posted' = res.posted
    /\ UNCHANGED <<clean_vars, scenario, pc, uploaded_files, uuid_calls,
                   cli_vars>>

\* GET /api/test
TestEndpoint ==
    /\ pc = "serving"
    /\ request' = [op |-> "test"]
    /\ response' = test_endpoint
    /\ posted' = <<>>
    /\ UNCHANGED <<clean_vars, scenario, pc, uploaded_files, uuid_calls,
                   cli_vars>>

\* python app.py ...: lines 12-33 run, then the block of lines 201-203,
\* which starts the server whatever sys.argv holds
Main ==
    /\ pc = "start"
    /\ IF ~api_key_set
       THEN pc' = "exited" /\ exit_code' = 1
       ELSE pc' = "serving" /\ exit_code' = -1
    /\ UNCHANGED <<clean_vars, scenario, http_vars, posted, argv, disk,
                   api_key_set, remote, stdout>>

\* a caller that has imported the module calls run_cli_mode(); nothing in
\* the module does
CallRunCliMode ==
    /\ pc = "start"
    /\ api_key_set
    /\ \E reply \in Replies(scenario) :
           LET res == run_cli_mode(argv, disk, reply)
           IN  /\ pc' = res.pc
               /\ exit_code' = res.exit_code
               /\ stdout' = res.stdout
               /\ posted' = res.posted
               /\ remote' = IF res.posted = <<>> THEN NoReply ELSE reply
    /\ UNCHANGED <<clean_vars, scenario, http_vars, argv, disk, api_key_set>>

CallClean ==
    /\ cleaned = <<>>
    /\ cleaned' = <<clean_text(raw)>>
    /\ UNCHANGED <<raw, recleaned, scenario, pc, http_vars, posted, cli_vars>>

CallCleanAgain ==
    /\ cleaned # <<>>
    /\ recleaned = <<>>
    /\ recleaned' = <<clean_text(cleaned[1])>>
    /\ UNCHANGED <<raw, cleaned, scenario, pc, http_vars, posted, cli_vars>>

---------------------------------------------------------------------------
(* Specifications                                                          *)

\* the server with the small documents
Next == UploadPdf \/ QueryPdf \/ TestEndpoint

Spec == Init /\ [][Next]_vars

\* the process started from the command line, and run_cli_mode() called
NextCli == Main \/ CallRunCliMode

SpecCli == InitCli /\ [][NextCli]_vars

\* the server and run_cli_mode() with documents around 500 and 4000
\* characters
NextLong == UploadPdf \/ QueryPdf \/ TestEndpoint \/ CallRunCliMode

SpecLong == InitLong /\ [][NextLong]_vars

\* clean_text on every string over CleanAlphabet of at most MaxLen
\* characters, and on its result
NextClean == CallClean \/ CallCleanAgain

SpecClean == InitClean /\ [][NextClean]_vars

---------------------------------------------------------------------------
(* The claims                                                              *)

\* C1: when opening the uploaded document or extracting one of its pages
\* fails, upload_pdf catches the failure: the request is not answered by an
\* unhandled exception.
C1_UploadFailureIsCaught ==
    (/\ request.op = "upload"
     /\ request.files.has_file
     /\ ReadPages(request.files.doc).raised)
    => response.body.kind # "exception"

\* the filename ends in a '.' followed by "pdf" in any case, with no '.'
\* after that one
HasPdfExtension(filename) ==
    \E i \in 1..Len(filename) :
        /\ filename[i] = "."
        /\ \A j \in (i + 1)..Len(filename) : filename[j] # "."
        /\ Lower(SubSeq(filename, i + 1, Len(filename))) = <<"p", "d", "f">>

\* C2: an upload with no file part, an empty filename, or a filename whose
\* last extension is not pdf (in any case) is answered 400 with an error
\* field, and uploaded_files is after the request what it was before.
C2_RejectedUploadLeavesStore ==
    [][(/\ request'.op = "upload"
        /\ \/ ~request'.files.has_file
           \/ request'.files.filename = <<>>
           \/ ~HasPdfExtension(request'.files.filename))
       => /\ response'.status = 400
          /\ response'.body.kind = "error"
          /\ uploaded_files' = uploaded_files]_vars

C2_Witness ==
    /\ request.op = "upload"
    /\ request.files.has_file
    /\ request.files.filename = NameTwoExt
    /\ response.status = 400
    /\ uploaded_files # EmptyDict

\* the query names both fields
FullQuery == request.op = "query" /\ request.data.keys = {"file_id", "prompt"}

\* the query's file_id is a key of uploaded_files
KnownFileId ==
    /\ request.data.file_id.type = "string"
    /\ request.data.file_id.value \in DOMAIN uploaded_files

\* C3: a query whose file_id is no key of uploaded_files, or whose stored
\* text is empty, is answered 400 whatever the prompt, and posts nothing to
\* the completion service.
C3_UnknownFileIdIs400 ==
    (/\ FullQuery
     /\ \/ ~KnownFileId
        \/ uploaded_files[request.data.file_id.value].text = <<>>)
    => response.status = 400 /\ posted = <<>>

\* the completion call failed: transport error, error status, a body that
\* is not JSON or holds no choices[0].message.content
CompletionFailed(reply) ==
    \/ reply.transport = "error"
    \/ reply.status >= 400
    \/ ~reply.is_json
    \/ ~reply.result.has_choices
    \/ Len(reply.result.choices) = 0
    \/ ~reply.result.choices[1].has_message
    \/ ~reply.result.choices[1].has_content

\* C4: a query for a known file_id with non-empty stored text that is
\* answered is answered 200 with {file_id, prompt, response}, and response
\* starts with "Error" when the completion call failed; never 5xx.
C4_KnownQueryAnswers200 ==
    (/\ FullQuery
     /\ KnownFileId
     /\ uploaded_files[request.data.file_id.value].text # <<>>
     /\ response # NoResponse)
    => /\ response.status = 200
       /\ response.body.kind = "query"
       /\ response.body.file_id = request.data.file_id
       /\ response.body.prompt = request.data.prompt
       /\ CompletionFailed(request.reply)
              => StartsWith(response.body.response, ErrorWord)
       /\ ~CompletionFailed(request.reply)
              => response.body.response
                     = request.reply.result.choices[1].content

C4_Witness ==
    /\ FullQuery
    /\ KnownFileId
    /\ request.reply.transport = "ok"
    /\ request.reply.status = 200
    /\ request.reply.is_json
    /\ ~request.reply.result.has_choices
    /\ response.status = 200
    /\ StartsWith(response.body.response, ErrorWord)

\* C5 as claimed: clean_text(clean_text(x)) = clean_text(x) for every x.
C5_Idempotent ==
    recleaned # <<>> => recleaned[1] = cleaned[1]

HasDoubleSpace(text) ==
    \E i \in 1..(Len(text) - 1) : text[i] = " " /\ text[i + 1] = " "

HasHyphenBreak(text) ==
    \E i \in 1..(Len(text) - 2) :
        text[i] = "-" /\ text[i + 1] = " " /\ IsLower(text[i + 2])

\* C5 as amended: clean_text(clean_text(x)) = clean_text(x) for every x
\* whose cleaned text holds neither two spaces in a row nor "- " before a
\* lowercase letter.
C5_IdempotentWhenSettled ==
    (/\ recleaned # <<>>
     /\ ~HasDoubleSpace(cleaned[1])
     /\ ~HasHyphenBreak(cleaned[1]))
    => recleaned[1] = cleaned[1]

C5_Witness ==
    /\ recleaned # <<>>
    /\ ~HasDoubleSpace(cleaned[1])
    /\ ~HasHyphenBreak(cleaned[1])
    /\ "-" \in Range(raw)
    /\ "BULLET" \in Range(raw)
    /\ cleaned[1] # raw
    /\ recleaned[1] = cleaned[1]

\* text holds '<', then one or more characters other than '>', then '>'
HasTag(text) ==
    \E i \in 1..Len(text), j \in 1..Len(text) :
        /\ j >= i + 2
        /\ text[i] = "<"
        /\ text[j] = ">"
        /\ \A k \in (i + 1)..(j - 1) : text[k] # ">"

\* C6: the output of clean_text holds no non-breaking space and no '<',
\* one or more non-'>' characters, '>'.
C6_NoNbspNoTag ==
    cleaned # <<>> => "NBSP" \notin Range(cleaned[1]) /\ ~HasTag(cleaned[1])

C6_Witness ==
    /\ cleaned # <<>>
    /\ HasTag(raw)
    /\ "NBSP" \in Range(raw)
    /\ "<" \in Range(cleaned[1])

\* C7: on a successful upload text_preview is the stored text when that has
\* at most 500 characters, and its first 500 characters followed by "..."
\* when it has more; text_length is the length of the stored text.
C7_PreviewOfStoredText ==
    (request.op = "upload" /\ response.status = 200)
    => LET text    == uploaded_files[response.body.file_id].text
           preview == response.body.text_preview
       IN  /\ response.body.text_length = Len(text)
           /\ Len(text) <= 500 => preview = text
           /\ Len(text) > 500
                  => /\ Len(preview) = 503
                     /\ \A i \in 1..500 : preview[i] = text[i]
                     /\ \A i \in 501..503 : preview[i] = "."

C7_Witness ==
    /\ request.op = "upload"
    /\ response.status = 200
    /\ response.body.text_length = 501
    /\ Len(response.body.text_preview) = 503

\* the document text the last posted payload was built from
PostedContext ==
    IF request.op = "query"
    THEN uploaded_files[request.data.file_id.value].text
    ELSE extract_text_from_pdf(disk)

\* the question the last posted payload was built from
PostedQuestion ==
    IF request.op = "query"
    THEN StrOfJson(request.data.prompt)
    ELSE JoinWords(SubSeq(argv, 4, Len(argv)))

\* C8: the user message posted by query_pdf and by run_cli_mode holds the
\* whole document text when that has at most 4000 characters and its first
\* 4000 characters otherwise, between the fixed preamble and the fixed
\* connective and question: nothing of the text past place 4000 is in it.
C8_ContextCutAt4000 ==
    posted # <<>>
    => LET msg  == posted[1].messages[2].content
           text == PostedContext
           n    == IF Len(text) > 4000 THEN 4000 ELSE Len(text)
           p    == Len(Preamble)
       IN  /\ Len(posted) = 1
           /\ Len(msg) = p + n + Len(Connective) + Len(PostedQuestion)
           /\ SubSeq(msg, 1, p) = Preamble
           /\ \A i \in 1..n : msg[p + i] = text[i]
           /\ SubSeq(msg, p + n + 1, Len(msg)) = Connective \o PostedQuestion

C8_Witness ==
    /\ request.op = "query"
    /\ posted # <<>>
    /\ Len(PostedContext) = 4001
    /\ Len(posted[1].messages[2].content)
           = Len(Preamble) + 4000 + Len(Connective) + Len(Question)

\* C9: uploaded_files only grows: a successful upload adds one record under
\* a key that was not there, no other request changes the dictionary, and
\* a record once there keeps its filename and text.
C9_StoreOnlyGrows ==
    [][/\ \A k \in DOMAIN uploaded_files :
              /\ k \in DOMAIN uploaded_files'
              /\ uploaded_files'[k] = uploaded_files[k]
       /\ IF request'.op = "upload" /\ response'.status = 200
          THEN /\ response'.body.file_id \notin DOMAIN uploaded_files
               /\ DOMAIN uploaded_files'
                      = DOMAIN uploaded_files \cup {response'.body.file_id}
          ELSE uploaded_files' = uploaded_files]_vars

C9_Witness ==
    /\ request.op = "query"
    /\ response.status = 200
    /\ Cardinality(DOMAIN uploaded_files) = 2

\* C10: run with --cli, the program exits 1 after printing the usage when
\* fewer than two arguments follow the flag, exits 1 without posting
\* exactly when the extraction failed, and otherwise posts once and exits 0.
C10_CliOutcome ==
    (/\ pc \notin {"start", "blocked"}
     /\ api_key_set
     /\ Len(argv) > 1
     /\ argv[2] = CliFlag)
    => IF Len(argv) < 4
       THEN /\ pc = "exited"
            /\ exit_code = 1
            /\ Len(stdout) = 1
            /\ posted = <<>>
       ELSE IF ~disk.exists \/ ReadPages(disk.doc).raised
       THEN pc = "exited" /\ exit_code = 1 /\ posted = <<>>
       ELSE pc = "exited" /\ exit_code = 0 /\ Len(posted) = 1

====
